---- MODULE Spec2Model ----
(***************************************************************************)
(* Model of the daily-company-stream pipeline:                             *)
(*   - the scrape-companies edge function (both handlers of the source:    *)
(*     the first one and the one that also stores companies and officers), *)
(*   - the search-email edge function (three-tier contact search).         *)
(* Time is a millisecond clock advanced by the handler's explicit sleeps.  *)
(***************************************************************************)
EXTENDS Integers, Sequences, FiniteSets, TLC

\* ---------------------------------------------------------------- constants
RATE_LIMIT == 600
WINDOW_MS == 300000
PAGE_SIZE == 100
MAX_COMPANIES == 5
DEFAULT_RETRY_S == 60
RATE_BUFFER_MS == 1000
PAGE_DELAY_MS == 100
OFFICER_DELAY_MS == 200
BATCH_DELAY_MS == 500

\* ------------------------------------------------------------------- bounds
MaxInvocations == 2
MaxFaults == 1
Max429 == 1
MaxExtraRequests == 1
MaxOfficers == 1
TwoTotal == 2
BigTotal == 60050
MaxDashOfficers == 2
MaxSearches == 2
MaxFieldLen == 2

\* --------------------------------------------------------------- value sets
NULL == -1
None == "none"
NoMsg == "null"
NoDate == 0
Today == 2
Dates == {1, 2}
Versions == {"first", "officers"}
Configs == {"ok", "noUrl", "noServiceKey", "noApiKey"}
RetryAfters == {None, "2", "300"}
SmallTotals == {0, 3, 250}
\* what a search answer says about the total: the number of items the
\* upstream goes on to serve, a number it does not serve in full, or nothing
Reports == {"exact", "short", "missing"}

\* an upstream that reports T companies
Upstream(T, rep) ==
  [items |-> IF rep # "short" THEN T ELSE IF T > PAGE_SIZE THEN T - PAGE_SIZE ELSE 0,
   total |-> IF rep = "missing" THEN NULL ELSE T]

SmallUpstreams == {Upstream(T, rep) : T \in SmallTotals, rep \in Reports}

Min(a, b) == IF a < b THEN a ELSE b
Max(a, b) == IF a > b THEN a ELSE b

VARIABLES
  runs, logs, companies, officers, storage,
  now, inv, faults, n429, upstreams,
  pc, version, cfg, reqTargetDate, bodyUsed,
  dateToFetch, runId, allCompanies, startIndex, totalResults, pagesFetched,
  rateLimitState, response, upstream, requests,
  limitedCompanies, insertedCompanies, oi, officerRequests,
  err, result,
  sPc, sReq, sCalls, sRes,
  contacts, emailSearchResults, searchingEmails, calls, searchesLeft,
  csvCompany, csvLine,
  dobIn, dobOut,
  batch

dbVars == <<runs, logs, companies, officers, storage>>
envVars == <<now, inv, faults, n429, upstreams, upstream>>
reqVars == <<version, cfg, reqTargetDate, bodyUsed>>
loopVars == <<dateToFetch, runId, allCompanies, startIndex, totalResults,
              pagesFetched, rateLimitState, response, requests>>
offVars == <<limitedCompanies, insertedCompanies, oi, officerRequests>>
outVars == <<err, result>>
searchVars == <<sPc, sReq, sCalls, sRes>>
dashVars == <<contacts, emailSearchResults, searchingEmails, calls, searchesLeft>>
csvVars == <<csvCompany, csvLine>>
dobVars == <<dobIn, dobOut>>
pureVars == <<csvVars, dobVars>>
batchVars == <<batch>>
otherVars == <<searchVars, dashVars, pureVars, batchVars>>
ingestVars == <<dbVars, envVars, reqVars, loopVars, offVars, outVars, pc>>
vars == <<ingestVars, otherVars>>

\* ------------------------------------------------------------------ helpers
RECURSIVE SumRange(_, _, _)
\* number of items of pages lo..hi (halving keeps the evaluation shallow)
SumRange(pages, lo, hi) ==
  IF lo > hi THEN 0
  ELSE IF lo = hi THEN pages[lo][2]
  ELSE LET mid == (lo + hi) \div 2
       IN SumRange(pages, lo, mid) + SumRange(pages, mid + 1, hi)

\* allCompanies is kept as the list of pushed pages <<start, n>>; page
\* <<s, n>> stands for the upstream items numbered s .. s+n-1, and
\* allCompanies.length is the sum of the page sizes.
SumLen(pages) == SumRange(pages, 1, Len(pages))

RECURSIVE Flatten(_, _)
\* the first k company numbers of the accumulated pages
Flatten(pages, k) ==
  IF pages = <<>> \/ k <= 0 THEN <<>>
  ELSE LET s == pages[1][1]
           n == Min(pages[1][2], k)
       IN [i \in 1..n |-> s + i - 1] \o Flatten(Tail(pages), k - n)

\* scraper_logs insert through the log helper
LogRow(level, tag, who) == [run_id |-> runId, level |-> level, tag |-> tag, who |-> who]

\* a wait that forgets the default of 60 s
WaitSecondsBad(retryAfter) ==
  IF retryAfter = None THEN 0
  ELSE IF retryAfter = "2" THEN 2 ELSE 300

\* retryAfter ? parseInt(retryAfter) : 60
WaitSeconds(retryAfter) ==
  IF retryAfter = None THEN DEFAULT_RETRY_S
  ELSE IF retryAfter = "2" THEN 2 ELSE 300

\* the upstream answer to a company search at start_index s
PageItems(s) == Min(PAGE_SIZE, Max(0, upstream.items - s))

\* ---------------------------------------------------------------- rate limit
\* a limiter that lets one request too many through
CheckRateLimitBad(st, t) ==
  LET st1 == IF t - st.windowStart >= WINDOW_MS
             THEN [requestCount |-> 0, windowStart |-> t] ELSE st
  IN IF st1.requestCount > RATE_LIMIT
     THEN LET waitTime == WINDOW_MS - (t - st1.windowStart)
              t2 == t + waitTime + RATE_BUFFER_MS
          IN [st |-> [requestCount |-> 0, windowStart |-> t2], now |-> t2,
              waited |-> TRUE]
     ELSE [st |-> st1, now |-> t, waited |-> FALSE]

\* checkRateLimit: the limiter state and the clock after the call, and
\* whether it waited (and logged the wait)
CheckRateLimit(st, t) ==
  LET st1 == IF t - st.windowStart >= WINDOW_MS
             THEN [requestCount |-> 0, windowStart |-> t] ELSE st
  IN IF st1.requestCount >= RATE_LIMIT
     THEN LET waitTime == WINDOW_MS - (t - st1.windowStart)
              t2 == t + waitTime + RATE_BUFFER_MS
          IN [st |-> [requestCount |-> 0, windowStart |-> t2], now |-> t2,
              waited |-> TRUE]
     ELSE [st |-> st1, now |-> t, waited |-> FALSE]

\* ------------------------------------------------------------ search-email
\* a profile of the people search: the teaser lists and the linkedin url
Profile(e, pe, pr, ph, pv, li) ==
  [emails |-> e, professional_emails |-> pe, personal_emails |-> pr,
   phones |-> ph, preview |-> pv, linkedin_url |-> li]

PFull == Profile(<<"a@x.com">>, <<"work@x.com">>, <<"home@x.com">>, <<"+44">>, <<"x.com">>, "linkedin/a")
PWork == Profile(<<>>, <<"work@y.com">>, <<"home@y.com">>, <<>>, <<>>, None)
PHome == Profile(<<>>, <<>>, <<"home@z.com">>, <<>>, <<>>, None)
PPreview == Profile(<<>>, <<>>, <<>>, <<>>, <<"z.com">>, None)
PPhone == Profile(<<>>, <<>>, <<>>, <<"+44">>, <<>>, None)
PLinked == Profile(<<>>, <<>>, <<>>, <<>>, <<>>, "linkedin/b")
PBare == Profile(<<>>, <<>>, <<>>, <<>>, <<>>, None)

ProfileLists ==
  {<<>>, <<PFull>>, <<PWork>>, <<PHome>>, <<PPreview>>, <<PPhone>>, <<PLinked>>,
   <<PBare>>, <<PBare, PFull>>}

\* what the people search can answer to one call; "throw" is a fetch that rejects
Outcomes ==
  {[kind |-> k, profiles |-> <<>>] : k \in {"non2xx", "empty", "malformed", "throw"}}
  \cup {[kind |-> "json", profiles |-> ps] : ps \in ProfileLists}

SearchRequests ==
  [method : {"POST", "GET", "OPTIONS"}, bodyOk : BOOLEAN,
   name : {None, "SMITH, John"}, location : {None, "London"},
   company_sic_code : {None, "62012 - Business software"},
   detailed_location : {None, "Soho, London"}, apiKey : BOOLEAN]

NoSearchRequest ==
  [method |-> "POST", bodyOk |-> TRUE, name |-> None, location |-> None,
   company_sic_code |-> None, detailed_location |-> None, apiKey |-> FALSE]

\* the JSON body of a response; None, <<>> and FALSE stand for absent fields
NoSearchResponse ==
  [sent |-> FALSE, status |-> 0, json |-> FALSE, found |-> FALSE, email |-> <<>>,
   emails |-> <<>>, phones |-> <<>>, linkedin |-> None, source |-> None,
   error |-> None, profile |-> FALSE]

\* an error body that also carries an (empty) profile object
ErrorResponseBad(status, msg) ==
  [NoSearchResponse EXCEPT !.sent = TRUE, !.status = status, !.json = TRUE,
                           !.error = msg, !.profile = TRUE]

\* a JSON response {found: false, error: msg}
ErrorResponse(status, msg) ==
  [NoSearchResponse EXCEPT !.sent = TRUE, !.status = status, !.json = TRUE, !.error = msg]

\* company_sic_code.split(' - ')[0]
SicNumber(code) == IF code = "62012 - Business software" THEN "62012" ELSE code

\* a performSearch that throws on a non-2xx answer
PerformSearchBad(o) ==
  IF o.kind = "non2xx" THEN [ok |-> FALSE, thrown |-> TRUE, profiles |-> <<>>]
  ELSE IF o.kind = "json" THEN [ok |-> TRUE, thrown |-> FALSE, profiles |-> o.profiles]
  ELSE [ok |-> FALSE, thrown |-> o.kind = "throw", profiles |-> <<>>]

\* performSearch: the parsed body, or null (ok = FALSE) when the call failed
PerformSearch(o) ==
  IF o.kind = "json" THEN [ok |-> TRUE, thrown |-> FALSE, profiles |-> o.profiles]
  ELSE [ok |-> FALSE, thrown |-> o.kind = "throw", profiles |-> <<>>]

\* a processResults that only looks at the plain email list
ProcessResultsBad(data, source) ==
  IF Len(data.profiles) > 0 /\ Len(data.profiles[1].emails) > 0
  THEN [sent |-> TRUE, status |-> 200, json |-> TRUE, found |-> TRUE,
        email |-> <<data.profiles[1].emails[1]>>, emails |-> data.profiles[1].emails,
        phones |-> data.profiles[1].phones, linkedin |-> data.profiles[1].linkedin_url,
        source |-> source, error |-> None, profile |-> TRUE]
  ELSE NoSearchResponse

\* processResults: the response built from the first profile, or no response
ProcessResults(data, source) ==
  IF Len(data.profiles) > 0
  THEN LET profile == data.profiles[1]
           allEmails == profile.emails \o profile.professional_emails
                        \o profile.personal_emails
       IN [sent |-> TRUE, status |-> 200, json |-> TRUE, found |-> TRUE,
           email |-> IF Len(allEmails) > 0 THEN <<allEmails[1]>>
                     ELSE IF Len(profile.preview) > 0
                          THEN <<"[Hidden - ", profile.preview[1], "]">> ELSE <<>>,
           emails |-> allEmails,
           phones |-> profile.phones,
           linkedin |-> profile.linkedin_url,
           source |-> source,
           error |-> IF Len(allEmails) = 0 /\ Len(profile.preview) > 0
                     THEN "Email/phone requires RocketReach credits to reveal" ELSE None,
           profile |-> TRUE]
  ELSE NoSearchResponse

\* a chain that tries Search 2 whether or not there is a detailed_location
TierAfterBad(t, req) ==
  IF t = "s0" /\ req.company_sic_code # None THEN "s1"
  ELSE IF t \in {"s0", "s1"} THEN "s2"
  ELSE IF t = "s2" THEN "s3"
  ELSE "notfound"

\* the tier tried after tier t returned no result
TierAfter(t, req) ==
  IF t = "s0" /\ req.company_sic_code # None THEN "s1"
  ELSE IF t \in {"s0", "s1"} /\ req.detailed_location # None THEN "s2"
  ELSE IF t \in {"s0", "s1", "s2"} THEN "s3"
  ELSE "notfound"

TierSource(t) ==
  IF t = "s1" THEN "RocketReach (Search 1: name + location + company_sic_code)"
  ELSE IF t = "s2" THEN "RocketReach (Search 2: name + detailed_location)"
  ELSE "RocketReach (Search 3: name + location)"

\* the query parameters a tier adds to name, start and pageSize
TierParams(t, req) ==
  IF t = "s1" THEN [geo |-> req.location, sic |-> SicNumber(req.company_sic_code)]
  ELSE IF t = "s2" THEN [geo |-> req.detailed_location, sic |-> None]
  ELSE [geo |-> req.location, sic |-> None]

\* a validation that answers every method but POST with an empty body
ValidationBad(req) ==
  IF req.method # "POST"
  THEN [NoSearchResponse EXCEPT !.sent = TRUE, !.status = 200]
  ELSE IF ~req.bodyOk THEN ErrorResponse(500, "Unexpected end of JSON input")
  ELSE IF req.name = None THEN ErrorResponse(400, "Name is required")
  ELSE IF ~req.apiKey THEN ErrorResponse(500, "RocketReach API key not configured")
  ELSE IF req.location = None THEN ErrorResponse(400, "Location is required for search")
  ELSE NoSearchResponse

\* the response the handler returns before any search (method, body, name,
\* key, location), or NoSearchResponse when the request gets to the searches
Validation(req) ==
  IF req.method = "OPTIONS"
  THEN [NoSearchResponse EXCEPT !.sent = TRUE, !.status = 200]
  ELSE IF req.method # "POST" THEN ErrorResponse(405, "Method not allowed. Use POST.")
  ELSE IF ~req.bodyOk THEN ErrorResponse(500, "Unexpected end of JSON input")
  ELSE IF req.name = None THEN ErrorResponse(400, "Name is required")
  ELSE IF ~req.apiKey THEN ErrorResponse(500, "RocketReach API key not configured")
  ELSE IF req.location = None THEN ErrorResponse(400, "Location is required for search")
  ELSE NoSearchResponse

\* the handler up to the first search
SearchInvoke ==
  /\ sPc = "idle"
  /\ \E req \in SearchRequests :
       /\ sReq' = req
       /\ sCalls' = <<>>
       /\ sRes' = Validation(req)
       /\ sPc' = IF Validation(req).sent THEN "done" ELSE TierAfter("s0", req)
  /\ UNCHANGED <<ingestVars, dashVars, pureVars, batchVars>>

\* one tier: performSearch, processResults, return or fall through
SearchTier(t) ==
  /\ sPc = t
  /\ \E o \in Outcomes :
       LET data == PerformSearch(o)
           res == ProcessResults(data, TierSource(t))
       IN /\ sCalls' = Append(sCalls, [tier |-> t, params |-> TierParams(t, sReq),
                                         outcome |-> o])
          /\ IF data.thrown
             THEN /\ sRes' = ErrorResponse(500, "fetch failed")
                  /\ sPc' = "done"
             ELSE IF data.ok /\ res.sent
             THEN /\ sRes' = res
                  /\ sPc' = "done"
             ELSE /\ sRes' = sRes
                  /\ sPc' = TierAfter(t, sReq)
  /\ UNCHANGED <<sReq, ingestVars, dashVars, pureVars, batchVars>>

Search1 == SearchTier("s1")
Search2 == SearchTier("s2")
Search3 == SearchTier("s3")

\* no tier returned a profile
SearchNotFound ==
  /\ sPc = "notfound"
  /\ sRes' = ErrorResponse(200, "No profiles found after all search attempts")
  /\ sPc' = "done"
  /\ UNCHANGED <<sReq, sCalls, ingestVars, dashVars, pureVars, batchVars>>

Tiers == {"s1", "s2", "s3"}

RECURSIVE RunTiers(_, _, _)
\* the searches from tier t on, outs[t] being the upstream's answer to tier t
RunTiers(t, req, outs) ==
  IF t = "notfound"
  THEN ErrorResponse(200, "No profiles found after all search attempts")
  ELSE LET data == PerformSearch(outs[t])
           res == ProcessResults(data, TierSource(t))
       IN IF data.thrown THEN ErrorResponse(500, "fetch failed")
          ELSE IF data.ok /\ res.sent THEN res
          ELSE RunTiers(TierAfter(t, req), req, outs)

\* the response of one whole invocation of the function (it keeps no state
\* between invocations)
SearchEmailResponse(req, outs) ==
  IF Validation(req).sent THEN Validation(req)
  ELSE RunTiers(TierAfter("s0", req), req, outs)

\* ---------------------------------------------------------------- dashboard
OfficerIds == 1..MaxDashOfficers
\* the calls of searchEmail made from an officer's button, numbered in the
\* order they start
CallIds == 1..MaxSearches
\* the call findAllContactDetails makes for officer k
BatchCallId(k) == MaxSearches + k
AllCallIds == 1..(MaxSearches + MaxDashOfficers)

\* the officers rows shown by the dashboard: one without locality and country
\* in its address, one with both, one without address
DashOfficer(id) ==
  [id |-> id, name |-> "SMITH, John",
   hasAddress |-> id % 3 # 0,
   locality |-> IF id % 3 = 2 THEN "London" ELSE None,
   country |-> IF id % 3 = 2 THEN "UK" ELSE None,
   country_of_residence |-> "England"]

\* [a, b].filter(Boolean).join(", ")
JoinParts(a, b) ==
  IF a = None THEN (IF b = None THEN "" ELSE b)
  ELSE IF b = None THEN a ELSE a \o ", " \o b

\* the location string searchEmail builds
OfficerLocation(officer) ==
  IF officer.hasAddress THEN JoinParts(officer.locality, officer.country)
  ELSE IF officer.country_of_residence # None THEN officer.country_of_residence
  ELSE ""

\* the request functions.invoke sends: a POST with name and location (the
\* function does not read occupation); an empty string is falsy
CallerRequest(officer, key) ==
  [method |-> "POST", bodyOk |-> TRUE, name |-> officer.name,
   location |-> IF OfficerLocation(officer) = "" THEN None ELSE OfficerLocation(officer),
   company_sic_code |-> None, detailed_location |-> None, apiKey |-> key]

\* an invoke that hands over the body of every answer, whatever its status
FunctionsInvokeBad(res, net) ==
  IF ~net THEN [data |-> NoSearchResponse,
                error |-> "Failed to send a request to the Edge Function"]
  ELSE [data |-> res, error |-> None]

\* functions.invoke: {data, error}; error on a transport failure and on a
\* non-2xx status
FunctionsInvoke(res, net) ==
  IF ~net THEN [data |-> NoSearchResponse,
                error |-> "Failed to send a request to the Edge Function"]
  ELSE IF res.status < 200 \/ res.status > 299
  THEN [data |-> NoSearchResponse,
        error |-> "Edge Function returned a non-2xx status code"]
  ELSE [data |-> res, error |-> None]

\* the EmailSearchResult carried by a response body
ResultOf(res) ==
  [found |-> res.found, email |-> res.email, emails |-> res.emails,
   phones |-> res.phones, linkedin |-> res.linkedin, source |-> res.source,
   error |-> res.error, profile |-> res.profile]

\* the entry the catch block stores
CaughtResult(msg) ==
  [found |-> FALSE, email |-> <<>>, emails |-> <<>>, phones |-> <<>>,
   linkedin |-> None, source |-> None, error |-> msg, profile |-> FALSE]

\* email.startsWith('[Hidden')
StartsWithHidden(email) == email # <<>> /\ email[1] = "[Hidden - "

\* a row that stores whatever the rslt calls its email
ContactRowBad(id, rslt, t) ==
  [officer_id |-> id,
   email |-> IF Len(rslt.emails) > 0 THEN <<rslt.emails[1]>> ELSE rslt.email,
   phone |-> IF Len(rslt.phones) > 0 THEN <<rslt.phones[1]>> ELSE <<>>,
   linkedin_url |-> rslt.linkedin, found |-> rslt.found,
   error_message |-> rslt.error, source |-> rslt.source,
   profile |-> rslt.profile, searched_at |-> t]

\* the officer_contacts row searchEmail builds from a rslt (<<>> and None
\* are SQL NULL; profile stands for the four profile_ columns)
ContactRow(id, rslt, t) ==
  [officer_id |-> id,
   email |-> IF Len(rslt.emails) > 0 THEN <<rslt.emails[1]>>
             ELSE IF rslt.email # <<>> /\ ~StartsWithHidden(rslt.email)
                  THEN rslt.email ELSE <<>>,
   phone |-> IF Len(rslt.phones) > 0 THEN <<rslt.phones[1]>> ELSE <<>>,
   linkedin_url |-> rslt.linkedin, found |-> rslt.found,
   error_message |-> rslt.error, source |-> rslt.source,
   profile |-> rslt.profile, searched_at |-> t]

\* an insert that ignores the conflict target
UpsertBad(rows, row) == Append(rows, row)

\* upsert(row, {onConflict: 'officer_id'}) under UNIQUE(officer_id)
Upsert(rows, row) ==
  IF \E i \in 1..Len(rows) : rows[i].officer_id = row.officer_id
  THEN [i \in 1..Len(rows) |->
          IF rows[i].officer_id = row.officer_id THEN row ELSE rows[i]]
  ELSE Append(rows, row)

\* the entry the officers query builds from a stored row
ContactResult(contact) ==
  [found |-> contact.found, email |-> contact.email, emails |-> contact.email,
   phones |-> contact.phone, linkedin |-> contact.linkedin_url,
   source |-> contact.source, error |-> contact.error_message, profile |-> TRUE]

\* the addresses the email cell renders as mailto links
MailtoLinks(rslt) ==
  IF Len(rslt.emails) > 0 THEN rslt.emails
  ELSE IF rslt.email # <<>> /\ ~StartsWithHidden(rslt.email) THEN rslt.email
  ELSE <<>>

\* what the people search answers to the dashboard's lookups
DashOutcomes ==
  {[kind |-> k, profiles |-> <<>>] : k \in {"non2xx", "throw"}}
  \cup {[kind |-> "json", profiles |-> ps] : ps \in {<<>>, <<PFull>>, <<PPreview>>}}

NoOutcome == [kind |-> "none", profiles |-> <<>>]
NoCall == [pc |-> "idle", officer |-> 0, outcome |-> NoOutcome, data |-> NoSearchResponse]

\* new Date() of the dashboard, counted in searches started so far
DashClock == MaxSearches - searchesLeft

\* searchEmail up to the await of functions.invoke
DashStart(c) ==
  /\ c = DashClock + 1 /\ searchesLeft > 0
  /\ searchesLeft' = searchesLeft - 1
  /\ \E k \in OfficerIds :
       /\ searchingEmails' = searchingEmails \cup {k}
       /\ calls' = [calls EXCEPT ![c] = [NoCall EXCEPT !.pc = "invoke", !.officer = k]]
  /\ UNCHANGED <<contacts, emailSearchResults, searchVars, ingestVars, pureVars, batchVars>>

\* functions.invoke settled: throw into catch and finally, or go on with the
\* upsert
DashAnswer(c) ==
  /\ calls[c].pc = "invoke"
  /\ \E o \in DashOutcomes, key \in BOOLEAN, net \in BOOLEAN :
       LET k == calls[c].officer
           res == SearchEmailResponse(CallerRequest(DashOfficer(k), key),
                                      [t \in Tiers |-> o])
           r == FunctionsInvoke(res, net)
       IN IF r.error # None
          THEN /\ emailSearchResults' =
                    [emailSearchResults EXCEPT ![k] = <<CaughtResult(r.error)>>]
               /\ searchingEmails' = searchingEmails \ {k}
               /\ calls' = [calls EXCEPT ![c] = NoCall]
          ELSE /\ calls' = [calls EXCEPT ![c].pc = "upsert", ![c].outcome = o,
                                         ![c].data = r.data]
               /\ UNCHANGED <<emailSearchResults, searchingEmails>>
  /\ UNCHANGED <<contacts, searchesLeft, searchVars, ingestVars, pureVars, batchVars>>

\* the upsert settled (its error is not looked at), the result is stored, and
\* finally the officer leaves the in-flight set
DashUpsert(c) ==
  /\ calls[c].pc = "upsert"
  /\ LET k == calls[c].officer
         rslt == ResultOf(calls[c].data)
         row == ContactRow(k, rslt, DashClock)
     IN /\ \E ok \in BOOLEAN :
             contacts' = IF ok THEN Upsert(contacts, row) ELSE contacts
        /\ emailSearchResults' = [emailSearchResults EXCEPT ![k] = <<rslt>>]
        /\ searchingEmails' = searchingEmails \ {k}
  /\ calls' = [calls EXCEPT ![c] = NoCall]
  /\ UNCHANGED <<searchesLeft, searchVars, ingestVars, pureVars, batchVars>>

\* the officers query ran: the stored contacts replace the result entries
LoadContacts ==
  /\ emailSearchResults' =
       [k \in OfficerIds |->
          IF \E i \in 1..Len(contacts) : contacts[i].officer_id = k
          THEN <<ContactResult(contacts[CHOOSE i \in 1..Len(contacts) :
                                           contacts[i].officer_id = k])>>
          ELSE <<>>]
  /\ UNCHANGED <<contacts, searchingEmails, calls, searchesLeft,
                 searchVars, ingestVars, pureVars, batchVars>>

\* findAllContactDetails: its position, the officer the for loop is at, the
\* officers that have an entry in the emailSearchResults it closed over, the
\* lookups it started (with the time it had slept by then) and the
\* milliseconds it has slept
NoBatch == [pc |-> "idle", i |-> 0, had |-> {}, looked |-> <<>>, slept |-> 0]

\* the button was clicked: isFindingAllContacts, and the loop begins
BatchStart ==
  /\ batch.pc = "idle"
  /\ batch' = [NoBatch EXCEPT !.pc = "next", !.i = 1,
                              !.had = {k \in OfficerIds : emailSearchResults[k] # <<>>}]
  /\ UNCHANGED <<dashVars, searchVars, ingestVars, pureVars>>

\* one turn of the for loop: the end of the list, an officer that is skipped,
\* or searchEmail(officer) up to its await
BatchNext ==
  /\ batch.pc = "next"
  /\ IF batch.i > MaxDashOfficers
     THEN /\ batch' = [batch EXCEPT !.pc = "done"]
          /\ UNCHANGED <<searchingEmails, calls>>
     ELSE IF batch.i \in batch.had
     THEN /\ batch' = [batch EXCEPT !.i = @ + 1]
          /\ UNCHANGED <<searchingEmails, calls>>
     ELSE /\ batch' = [batch EXCEPT !.pc = "await",
                          !.looked = Append(@, [officer |-> batch.i, slept |-> batch.slept])]
          /\ searchingEmails' = searchingEmails \cup {batch.i}
          /\ calls' = [calls EXCEPT ![BatchCallId(batch.i)] =
                                      [NoCall EXCEPT !.pc = "invoke", !.officer = batch.i]]
  /\ UNCHANGED <<contacts, emailSearchResults, searchesLeft,
                 searchVars, ingestVars, pureVars>>

\* await searchEmail(officer) returned: the delay, then the next officer
BatchDelay ==
  /\ batch.pc = "await" /\ calls[BatchCallId(batch.i)].pc = "idle"
  /\ batch' = [batch EXCEPT !.pc = "next", !.i = @ + 1, !.slept = @ + BATCH_DELAY_MS]
  /\ UNCHANGED <<dashVars, searchVars, ingestVars, pureVars>>

\* --------------------------------------------------------------- CSV export
\* strings are sequences of characters
QUOTE == "\""
CsvChars == {"a", ",", QUOTE}

RECURSIVE Texts(_)
\* the strings of at most n characters
Texts(n) ==
  IF n = 0 THEN {<<>>}
  ELSE Texts(n - 1) \cup {Append(t, ch) : t \in Texts(n - 1), ch \in CsvChars}

\* columns whose values are codes, numbers and dates, and columns of free text
CodeColumns == {"company_number", "company_status", "date_of_creation", "company_type"}
TextColumns == {"company_name", "address_line_1", "address_line_2", "locality",
                "postal_code", "country"}

\* a company of the registry: its scalar columns (<<>> when absent) and its
\* SIC codes
BaseCompany == [col \in CodeColumns \cup TextColumns |-> <<"a">>]
NoCompany == [cols |-> BaseCompany, sic_codes |-> <<>>]

CsvCompanies ==
  [cols : {[[BaseCompany EXCEPT ![f1] = v1] EXCEPT ![f2] = v2] :
             f1 \in CodeColumns, v1 \in {<<>>, <<"a">>},
             f2 \in TextColumns, v2 \in Texts(MaxFieldLen)},
   sic_codes : {<<>>, <<<<"6", "2">>>>, <<<<"6", "2">>, <<"7">>>>}]

RECURSIVE DoubleQuotes(_)
\* replace(/"/g, '""')
DoubleQuotes(t) ==
  IF t = <<>> THEN <<>>
  ELSE (IF Head(t) = QUOTE THEN <<QUOTE, QUOTE>> ELSE <<Head(t)>>) \o DoubleQuotes(Tail(t))

RECURSIVE JoinWith(_, _)
\* parts.join(sep)
JoinWith(parts, sep) ==
  IF parts = <<>> THEN <<>>
  ELSE IF Len(parts) = 1 THEN parts[1]
  ELSE parts[1] \o sep \o JoinWith(Tail(parts), sep)

\* `"${(value || '').replace(/"/g, '""')}"`
Quoted(t) == <<QUOTE>> \o DoubleQuotes(t) \o <<QUOTE>>

\* one line of the CSV artifact
CsvRow(company) ==
  JoinWith(<<company.cols["company_number"],
             Quoted(company.cols["company_name"]),
             company.cols["company_status"],
             company.cols["date_of_creation"],
             company.cols["company_type"],
             Quoted(company.cols["address_line_1"]),
             Quoted(company.cols["address_line_2"]),
             Quoted(company.cols["locality"]),
             company.cols["postal_code"],
             company.cols["country"],
             <<QUOTE>> \o JoinWith(company.sic_codes, <<";", " ">>) \o <<QUOTE>>>>,
           <<",">>)

\* the export maps one company to its line
ExportCsvRow ==
  /\ csvLine = <<>>
  /\ \E company \in CsvCompanies :
       /\ csvCompany' = company
       /\ csvLine' = CsvRow(company)
  /\ UNCHANGED <<searchVars, dashVars, ingestVars, dobVars, batchVars>>

\* ------------------------------------------------------- date of birth
\* officers.date_of_birth: null, or {month?, year?}; 0 is an absent number
NoDob == [present |-> FALSE, month |-> 0, year |-> 0]
DobValues ==
  {NoDob} \cup [present : {TRUE}, month : 0..12, year : {0} \cup 1975..1985]

MonthNames ==
  <<"January", "February", "March", "April", "May", "June",
    "July", "August", "September", "October", "November", "December">>

\* formatOfficerDateOfBirth of the company page
FormatOfficerDateOfBirth(dateOfBirth) ==
  IF ~dateOfBirth.present \/ dateOfBirth.month = 0 \/ dateOfBirth.year = 0
  THEN "Not available"
  ELSE MonthNames[dateOfBirth.month] \o " " \o ToString(dateOfBirth.year)

\* formatDateOfBirth of the run's company details; the long en-GB month of
\* new Date(year, month - 1) is the month's English name
FormatDateOfBirth(dob) ==
  IF ~dob.present THEN "Not available"
  ELSE IF dob.month # 0 /\ dob.year # 0
  THEN MonthNames[dob.month] \o " " \o ToString(dob.year)
  ELSE "Partial date available"

NoDobOut == [page |-> "", details |-> ""]

\* the dashboard renders the date of birth of an officer
RenderDob ==
  /\ dobOut = NoDobOut
  /\ \E dob \in DobValues :
       /\ dobIn' = dob
       /\ dobOut' = [page |-> FormatOfficerDateOfBirth(dob),
                     details |-> FormatDateOfBirth(dob)]
  /\ UNCHANGED <<searchVars, dashVars, ingestVars, csvVars, batchVars>>

\* --------------------------------------------------------------------- Init
NoFile == <<>>
\* a stored object: the run that uploaded it, its lines, and the number of
\* registry requests that run had sent by then
NoObject == [by |-> 0, items |-> <<>>, after |-> 0]
FileNames == {<<k, d>> : k \in {"jsonl", "csv"}, d \in Dates}
NoResponse == [status |-> 0, retryAfter |-> None, start |-> 0, n |-> 0, total |-> 0]
NoResult == [sent |-> FALSE, success |-> FALSE, runId |-> 0, totalCompanies |-> 0,
             pagesFetched |-> 0, jsonlFile |-> NoFile, csvFile |-> NoFile,
             error |-> NoMsg]

InitCommon ==
  /\ runs = <<>> /\ logs = <<>> /\ companies = <<>> /\ officers = <<>>
  /\ storage = [f \in FileNames |-> NoObject]
  /\ now = 0
  /\ upstream = [items |-> 0, total |-> 0]
  /\ pc = "idle" /\ version = "first" /\ cfg = "ok" /\ reqTargetDate = NoDate
  /\ bodyUsed = FALSE
  /\ dateToFetch = 1 /\ runId = 0 /\ allCompanies = <<>> /\ startIndex = 0
  /\ totalResults = 0 /\ pagesFetched = 0
  /\ rateLimitState = [requestCount |-> 0, windowStart |-> 0]
  /\ response = NoResponse /\ requests = <<>>
  /\ limitedCompanies = <<>> /\ insertedCompanies = <<>> /\ oi = 0
  /\ officerRequests = <<>>
  /\ err = NoMsg /\ result = NoResult
  /\ sPc = "idle" /\ sReq = NoSearchRequest /\ sCalls = <<>> /\ sRes = NoSearchResponse
  /\ contacts = <<>> /\ emailSearchResults = [k \in OfficerIds |-> <<>>]
  /\ searchingEmails = {} /\ calls = [c \in AllCallIds |-> NoCall]
  /\ batch = NoBatch
  /\ csvCompany = NoCompany /\ csvLine = <<>>
  /\ dobIn = NoDob /\ dobOut = NoDobOut

\* one invocation, against every modelled upstream and failure
Init ==
  /\ InitCommon
  /\ inv = 1 /\ faults = MaxFaults /\ n429 = Max429 /\ upstreams = SmallUpstreams
  /\ searchesLeft = 0

\* consecutive invocations against an upstream that is never throttled
InitTwo ==
  /\ InitCommon
  /\ inv = MaxInvocations /\ faults = MaxFaults /\ n429 = 0 /\ upstreams = {Upstream(TwoTotal, "exact")}
  /\ searchesLeft = 0

\* one invocation against an upstream that never errors and has more than
\* RATE_LIMIT pages
InitRate ==
  /\ InitCommon
  /\ inv = 1 /\ faults = 0 /\ n429 = 0 /\ upstreams = {Upstream(BigTotal, "exact")}
  /\ searchesLeft = 0

\* ------------------------------------------------------------- run ledger
\* scraper_runs insert({status: 'running', target_date}) with the column
\* defaults of the migration
NewRun(d) ==
  [status |-> "running", target_date |-> d, completed_at |-> NULL,
   total_companies |-> 0, pages_fetched |-> 0, error_message |-> NoMsg,
   jsonl_file_path |-> NoFile, csv_file_path |-> NoFile]

\* update({total_companies, pages_fetched}).eq('id', id)
UpdateProgress(rs, id, total, pages) ==
  [rs EXCEPT ![id].total_companies = total, ![id].pages_fetched = pages]

\* a completion that leaves completed_at alone
MarkCompletedBad(rs, id, t, total, pages, jf, cf) ==
  [rs EXCEPT ![id].status = "completed",
             ![id].total_companies = total, ![id].pages_fetched = pages,
             ![id].jsonl_file_path = jf, ![id].csv_file_path = cf]

\* update({status: 'completed', completed_at, counters, paths}).eq('id', id)
MarkCompleted(rs, id, t, total, pages, jf, cf) ==
  [rs EXCEPT ![id].status = "completed", ![id].completed_at = t,
             ![id].total_companies = total, ![id].pages_fetched = pages,
             ![id].jsonl_file_path = jf, ![id].csv_file_path = cf]

\* update({status: 'failed', completed_at, error_message}).eq('id', id)
MarkFailed(rs, id, t, msg) ==
  [rs EXCEPT ![id].status = "failed", ![id].completed_at = t,
             ![id].error_message = msg]

\* select('id').eq('target_date', d).order('created_at', desc).limit(1).single():
\* the id of the most recently created run for d, 0 when there is none
RecentRun(rs, d) ==
  LET ids == {i \in 1..Len(rs) : rs[i].target_date = d}
  IN IF ids = {} THEN 0 ELSE CHOOSE i \in ids : \A j \in ids : j <= i

\* one of the remaining injected failures is spent when ok is FALSE
Fault(ok) == /\ (ok \/ faults > 0)
             /\ faults' = IF ok THEN faults ELSE faults - 1

\* ------------------------------------------------------------- the handler
\* Deno.serve handler up to and including the creation of the run row
Invoke ==
  /\ pc \in {"idle", "done"} /\ inv > 0
  /\ inv' = inv - 1
  /\ \E v \in Versions, c \in Configs, td \in {NoDate} \cup Dates,
        y \in {Today - 1, Today}, up \in upstreams, ok \in BOOLEAN :
       /\ c # "ok" => ok
       /\ Fault(c = "ok" /\ ok)
       /\ version' = v /\ cfg' = c /\ reqTargetDate' = td
       /\ upstream' = up
       /\ allCompanies' = <<>> /\ startIndex' = 0 /\ totalResults' = 0
       /\ pagesFetched' = 0 /\ response' = NoResponse /\ requests' = <<>>
       /\ rateLimitState' = [requestCount |-> 0, windowStart |-> now]
       /\ limitedCompanies' = <<>> /\ insertedCompanies' = <<>> /\ oi' = 0
       /\ officerRequests' = <<>> /\ result' = NoResult
       /\ dateToFetch' = IF td # NoDate THEN td ELSE y
       /\ IF (v = "officers" /\ c # "ok") \/ (v = "first" /\ c \in {"noUrl", "noServiceKey"})
          THEN \* thrown before the request body is read
               /\ err' = (IF v = "officers" THEN "environment variable is not set"
                          ELSE "supabaseUrl is required")
               /\ bodyUsed' = FALSE /\ runId' = 0 /\ pc' = "catch"
               /\ UNCHANGED <<runs, logs>>
          ELSE /\ bodyUsed' = TRUE
               /\ IF ok
                  THEN /\ runs' = Append(runs, NewRun(dateToFetch'))
                       /\ runId' = Len(runs) + 1
                       /\ logs' = Append(logs, [run_id |-> runId', level |-> "info",
                                                tag |-> "starting", who |-> 0])
                       /\ err' = NoMsg /\ pc' = "loop"
                  ELSE /\ err' = "Failed to create run"
                       /\ runId' = 0 /\ pc' = "catch"
                       /\ UNCHANGED <<runs, logs>>
  /\ UNCHANGED otherVars
  /\ UNCHANGED <<companies, officers, storage, now, n429, upstreams>>

\* the break test at the end of a page iteration (a comparison with an
\* undefined total is false)
BreakLoop(v, acc, total, n) ==
  IF v = "first" THEN total # NULL /\ acc >= total
  ELSE acc >= MAX_COMPANIES \/ n < PAGE_SIZE

\* total captured from the first page (total_results || totalResults ||
\* items.length in the second handler)
FirstTotal(v, total, n) ==
  IF v = "first" THEN total ELSE IF total \notin {0, NULL} THEN total ELSE n

\* the most requests the bounded model lets one run issue
RequestCap == upstream.items \div PAGE_SIZE + 1 + Max429 + MaxExtraRequests

\* one iteration of the page loop up to the answer of the upstream:
\* checkRateLimit, the debug logs, fetch, requestCount++
FetchPage ==
  /\ pc = "loop" /\ Len(requests) < RequestCap
  /\ LET c == CheckRateLimit(rateLimitState, now) IN
       /\ now' = c.now
       /\ logs' = logs
            \o (IF c.waited THEN <<LogRow("info", "rate_limit_wait", 0)>> ELSE <<>>)
            \o <<LogRow("debug", "fetching_page", startIndex)>>
       /\ rateLimitState' = [c.st EXCEPT !.requestCount = @ + 1]
  /\ \E st \in {200, 429, 500}, ra \in RetryAfters :
       /\ st # 429 => ra = None
       /\ st = 429 => n429 > 0
       /\ n429' = IF st = 429 THEN n429 - 1 ELSE n429
       /\ Fault(st # 500)
       /\ requests' = Append(requests, [start_index |-> startIndex, at |-> now',
                                         status |-> st, retryAfter |-> ra])
       /\ response' = [status |-> st, retryAfter |-> ra, start |-> startIndex,
                       n |-> IF st = 200 THEN PageItems(startIndex) ELSE 0,
                       total |-> IF st = 200 THEN upstream.total ELSE 0]
  /\ pc' = "handle"
  /\ UNCHANGED otherVars
  /\ UNCHANGED <<runs, companies, officers, storage, inv, upstreams, upstream,
                 reqVars, dateToFetch, runId, allCompanies, startIndex,
                 totalResults, pagesFetched, offVars, outVars>>

\* the 429 branch: warning, sleep, continue
Handle429 ==
  /\ pc = "handle" /\ response.status = 429
  /\ logs' = Append(logs, LogRow("warning", "received_429", startIndex))
  /\ now' = now + WaitSeconds(response.retryAfter) * 1000
  /\ pc' = "loop"
  /\ UNCHANGED otherVars
  /\ UNCHANGED <<runs, companies, officers, storage, inv, faults, n429, upstreams,
                 upstream, reqVars, loopVars, offVars, outVars>>

\* !response.ok: throw
HandleError ==
  /\ pc = "handle" /\ response.status \notin {200, 429}
  /\ err' = "API request failed"
  /\ pc' = "catch"
  /\ UNCHANGED otherVars
  /\ UNCHANGED <<dbVars, envVars, reqVars, loopVars, offVars, result>>

\* offset of the next page
NextStart(s) == s + PAGE_SIZE

\* a page was fetched: push, count, persist the progress, break or delay
HandleOk ==
  /\ pc = "handle" /\ response.status = 200
  /\ totalResults' = IF pagesFetched = 0
                     THEN FirstTotal(version, response.total, response.n)
                     ELSE totalResults
  /\ allCompanies' = Append(allCompanies, <<response.start, response.n>>)
  /\ pagesFetched' = pagesFetched + 1
  /\ startIndex' = NextStart(startIndex)
  /\ \E ok \in BOOLEAN :
       /\ Fault(ok)
       /\ runs' = IF ok THEN UpdateProgress(runs, runId, SumLen(allCompanies'), pagesFetched')
                  ELSE runs
  /\ IF BreakLoop(version, SumLen(allCompanies'), totalResults', response.n)
     THEN /\ now' = now
          /\ IF version = "first"
             THEN /\ limitedCompanies' = allCompanies'
                  /\ pc' = "jsonl"
             ELSE /\ limitedCompanies' = limitedCompanies
                  /\ pc' = "store"
     ELSE /\ now' = now + PAGE_DELAY_MS
          /\ limitedCompanies' = limitedCompanies
          /\ pc' = "loop"
  /\ logs' = logs \o <<LogRow("info", "fetched_page", pagesFetched')>>
                  \o (IF pc' = "jsonl" THEN <<LogRow("info", "completed_fetching", 0)>>
                      ELSE <<>>)
  /\ UNCHANGED otherVars
  /\ UNCHANGED <<companies, officers, storage, inv, n429, upstreams, upstream,
                 reqVars, dateToFetch, runId, rateLimitState, response, requests,
                 insertedCompanies, oi, officerRequests, outVars>>

RECURSIVE Limit(_, _)
\* allCompanies.slice(0, k), in page form
Limit(pages, k) ==
  IF pages = <<>> \/ k <= 0 THEN <<>>
  ELSE IF pages[1][2] = 0 THEN Limit(Tail(pages), k)
  ELSE <<<<pages[1][1], Min(pages[1][2], k)>>>> \o Limit(Tail(pages), k - Min(pages[1][2], k))

\* an insert that skips company numbers the table already holds
InsertCompaniesBad(table, rows) ==
  table \o SelectSeq(rows, LAMBDA r :
                \A i \in 1..Len(table) : table[i].company_number # r.company_number)

\* from('companies').insert(rows): plain rows, no conflict target
InsertCompanies(table, rows) == table \o rows

\* a failed insert that leaves no trace in the log
InsertFailedBad(tag, who) == <<>>

\* if (insertError) await log('error', ...): the error is logged, not thrown
InsertFailed(tag, who) == <<LogRow("error", tag, who)>>

\* cap, then the bulk insert of the companies (second handler only)
StoreCompanies ==
  /\ pc = "store"
  /\ limitedCompanies' = Limit(allCompanies, MAX_COMPANIES)
  /\ LET nums == Flatten(limitedCompanies', MAX_COMPANIES)
         rows == [i \in 1..Len(nums) |->
                    [id |-> Len(companies) + i, run_id |-> runId,
                     company_number |-> nums[i]]]
         head == <<LogRow("info", "completed_fetching", 0)>>
     IN IF Len(nums) = 0
        THEN /\ logs' = logs \o head
             /\ pc' = "jsonl"
             /\ UNCHANGED <<companies, insertedCompanies, oi, faults>>
        ELSE \E ok \in BOOLEAN :
               /\ Fault(ok)
               /\ IF ok
                  THEN /\ companies' = InsertCompanies(companies, rows)
                       /\ insertedCompanies' = rows
                       /\ oi' = 1
                       /\ logs' = logs \o head
                                  \o <<LogRow("info", "stored_companies", Len(rows)),
                                       LogRow("info", "starting_officers", Len(rows))>>
                       /\ pc' = "officers"
                  ELSE /\ logs' = logs \o head
                                  \o InsertFailed("store_companies_failed", 0)
                       /\ pc' = "jsonl"
                       /\ UNCHANGED <<companies, insertedCompanies, oi>>
  /\ UNCHANGED otherVars
  /\ UNCHANGED <<runs, officers, storage, now, inv, n429, upstreams, upstream,
                 reqVars, loopVars, officerRequests, outVars>>

\* a loop that stops one company early
AfterOfficerBad(i) == IF i + 1 >= Len(insertedCompanies) THEN "jsonl" ELSE "officers"

\* position after the call of fetchAndStoreOfficers for company i returned
\* or threw
AfterOfficer(i) == IF i >= Len(insertedCompanies) THEN "jsonl" ELSE "officers"

\* what the loop does with an error thrown by fetchAndStoreOfficers
OfficerCatch(c) == <<LogRow("error", "officer_fetch_failed", c.company_number)>>

\* a retry that moves on to the next company
OfficerRetryBad(i) == IF i < Len(insertedCompanies) THEN i + 1 ELSE i

\* the company the call made from the 429 branch works on: the arguments are
\* passed on as they are
OfficerRetry(i) == i

\* fetchAndStoreOfficers answered 429: warning, sleep, call itself again
Officer429 ==
  /\ pc = "officers" /\ n429 > 0
  /\ LET c == insertedCompanies[oi] IN
     \E ra \in RetryAfters :
       /\ officerRequests' = Append(officerRequests,
             [company |-> c.id, status |-> 429, retryAfter |-> ra, at |-> now])
       /\ logs' = logs \o <<LogRow("debug", "fetching_officers", c.company_number),
                            LogRow("debug", "officers_status", c.company_number),
                            LogRow("warning", "officers_429", c.company_number)>>
       /\ now' = now + WaitSeconds(ra) * 1000
  /\ n429' = n429 - 1
  /\ oi' = OfficerRetry(oi)
  /\ UNCHANGED otherVars
  /\ UNCHANGED <<runs, companies, officers, storage, inv, faults, upstreams, upstream,
                 reqVars, loopVars, limitedCompanies, insertedCompanies,
                 outVars, pc>>

\* fetchAndStoreOfficers threw (non-2xx answer, unreadable body): the loop
\* logs the error and goes on with the next company
OfficerFail ==
  /\ pc = "officers" /\ faults > 0
  /\ LET c == insertedCompanies[oi] IN
       /\ officerRequests' = Append(officerRequests,
             [company |-> c.id, status |-> 500, retryAfter |-> None, at |-> now])
       /\ logs' = logs \o <<LogRow("debug", "fetching_officers", c.company_number),
                            LogRow("debug", "officers_status", c.company_number)>>
                       \o OfficerCatch(c)
  /\ faults' = faults - 1
  /\ pc' = AfterOfficer(oi)
  /\ oi' = oi + 1
  /\ UNCHANGED otherVars
  /\ UNCHANGED <<runs, companies, officers, storage, now, inv, n429, upstreams,
                 upstream, reqVars, loopVars, limitedCompanies, insertedCompanies,
                 outVars>>

\* the number of officers the registry lists for a company
OfficerCount(num) == num % (MaxOfficers + 1)

\* fetchAndStoreOfficers got the officer list: one bulk insert, then the delay
OfficerOk ==
  /\ pc = "officers"
  /\ LET c == insertedCompanies[oi] IN
     \E k \in {OfficerCount(c.company_number)}, ok \in BOOLEAN :
       /\ k = 0 => ok
       /\ Fault(ok)
       /\ officerRequests' = Append(officerRequests,
             [company |-> c.id, status |-> 200, retryAfter |-> None, at |-> now])
       /\ officers' = IF k > 0 /\ ok
                      THEN officers \o [i \in 1..k |-> [company_id |-> c.id, item |-> i]]
                      ELSE officers
       /\ logs' = logs \o <<LogRow("debug", "fetching_officers", c.company_number),
                            LogRow("debug", "officers_status", c.company_number),
                            LogRow("debug", "officers_raw", c.company_number),
                            LogRow("info", "officers_response", c.company_number)>>
                       \o (IF k = 0 THEN <<LogRow("info", "no_officers", c.company_number)>>
                           ELSE <<LogRow("debug", "officers_prepare", c.company_number)>>
                                \o (IF ok
                                    THEN <<LogRow("info", "officers_stored", c.company_number)>>
                                    ELSE InsertFailed("officers_store_failed",
                                                      c.company_number)))
  /\ now' = now + OFFICER_DELAY_MS
  /\ pc' = AfterOfficer(oi)
  /\ oi' = oi + 1
  /\ UNCHANGED otherVars
  /\ UNCHANGED <<runs, companies, storage, inv, n429, upstreams, upstream,
                 reqVars, loopVars, limitedCompanies, insertedCompanies, outVars>>

\* artifacts named after the day of the invocation
FileNameBad(kind) == <<kind, Today>>

\* `companies-${dateToFetch}.jsonl`, `companies-${dateToFetch}.csv`
FileName(kind) == <<kind, dateToFetch>>

\* storage upload of the JSONL artifact with upsert: true
UploadJsonl ==
  /\ pc = "jsonl"
  /\ \E ok \in BOOLEAN :
       /\ Fault(ok)
       /\ IF ok
          THEN /\ storage' = [storage EXCEPT ![FileName("jsonl")] =
                                [by |-> runId, items |-> limitedCompanies,
                                 after |-> Len(requests) + Len(officerRequests)]]
               /\ pc' = "csv" /\ err' = err
          ELSE /\ err' = "Failed to upload JSONL"
               /\ pc' = "catch" /\ storage' = storage
  /\ UNCHANGED otherVars
  /\ UNCHANGED <<runs, logs, companies, officers, now, inv, n429, upstreams, upstream,
                 reqVars, loopVars, offVars, result>>

\* storage upload of the CSV artifact with upsert: true
UploadCsv ==
  /\ pc = "csv"
  /\ \E ok \in BOOLEAN :
       /\ Fault(ok)
       /\ IF ok
          THEN /\ storage' = [storage EXCEPT ![FileName("csv")] =
                                [by |-> runId, items |-> limitedCompanies,
                                 after |-> Len(requests) + Len(officerRequests)]]
               /\ pc' = "complete" /\ err' = err
          ELSE /\ err' = "Failed to upload CSV"
               /\ pc' = "catch" /\ storage' = storage
  /\ UNCHANGED otherVars
  /\ UNCHANGED <<runs, logs, companies, officers, now, inv, n429, upstreams, upstream,
                 reqVars, loopVars, offVars, result>>

\* the run is marked completed (the outcome of the update is not looked at)
\* and the success response is returned
CompleteRun ==
  /\ pc = "complete"
  /\ logs' = Append(logs, LogRow("info", "exports_generated", 0))
  /\ \E ok \in BOOLEAN :
       /\ Fault(ok)
       /\ runs' = IF ok
                  THEN MarkCompleted(runs, runId, now, SumLen(limitedCompanies),
                                     pagesFetched, FileName("jsonl"), FileName("csv"))
                  ELSE runs
  /\ result' = [sent |-> TRUE, success |-> TRUE, runId |-> runId,
                totalCompanies |-> SumLen(limitedCompanies),
                pagesFetched |-> pagesFetched,
                jsonlFile |-> FileName("jsonl"), csvFile |-> FileName("csv"),
                error |-> NoMsg]
  /\ pc' = "done"
  /\ UNCHANGED otherVars
  /\ UNCHANGED <<companies, officers, storage, now, inv, n429, upstreams, upstream,
                 reqVars, loopVars, offVars, err>>

\* the run the catch block marks failed (0: none).  The first handler reads
\* runId from the request body, which never carries one; the second looks up the
\* most recent run of the date it reads from the body, or of today's date.
RunToFail ==
  IF version = "first" THEN 0
  ELSE LET td == IF bodyUsed THEN NoDate ELSE reqTargetDate
       IN RecentRun(runs, IF td # NoDate THEN td ELSE Today)

\* top-level catch: try to mark a run failed, answer success: false
Catch ==
  /\ pc = "catch"
  /\ IF cfg \in {"noUrl", "noServiceKey"}
     THEN UNCHANGED <<runs, faults, bodyUsed>>
     ELSE /\ bodyUsed' = TRUE
          /\ \E ok \in BOOLEAN :
               /\ Fault(ok)
               /\ runs' = IF ok /\ RunToFail # 0
                          THEN MarkFailed(runs, RunToFail, now, err)
                          ELSE runs
  /\ result' = [NoResult EXCEPT !.sent = TRUE, !.error = err]
  /\ pc' = "done"
  /\ UNCHANGED otherVars
  /\ UNCHANGED <<logs, companies, officers, storage, now, inv, n429, upstreams,
                 upstream, version, cfg, reqTargetDate, loopVars,
                 offVars, err>>

Next ==
  \/ Invoke
  \/ FetchPage \/ Handle429 \/ HandleError \/ HandleOk
  \/ StoreCompanies \/ Officer429 \/ OfficerFail \/ OfficerOk
  \/ UploadJsonl \/ UploadCsv \/ CompleteRun \/ Catch

Spec == Init /\ [][Next]_vars

NextTwo ==
  \/ Invoke
  \/ FetchPage \/ HandleError \/ HandleOk
  \/ StoreCompanies \/ OfficerFail \/ OfficerOk
  \/ UploadJsonl \/ UploadCsv \/ CompleteRun \/ Catch

SpecTwo == InitTwo /\ [][NextTwo]_vars

NextRate == Invoke \/ FetchPage \/ HandleOk

SpecRate == InitRate /\ [][NextRate]_vars

\* one invocation whose every await settles: a step that can be taken is
\* taken
SpecLive == Init /\ [][Next]_vars /\ WF_vars(Next)

\* one contact search, no ingestion
InitSearch ==
  /\ InitCommon
  /\ inv = 0 /\ faults = 0 /\ n429 = 0 /\ upstreams = {}
  /\ searchesLeft = 0

NextSearch == SearchInvoke \/ Search1 \/ Search2 \/ Search3 \/ SearchNotFound

SpecSearch == InitSearch /\ [][NextSearch]_vars

\* the dashboard's contact searches, any number of them in flight
InitDash ==
  /\ InitCommon
  /\ inv = 0 /\ faults = 0 /\ n429 = 0 /\ upstreams = {}
  /\ searchesLeft = MaxSearches

NextDash ==
  \/ \E c \in CallIds : DashStart(c)
  \/ \E c \in CallIds : DashAnswer(c)
  \/ \E c \in CallIds : DashUpsert(c)
  \/ LoadContacts

SpecDash == InitDash /\ [][NextDash]_vars

\* "find contact details for all", with single lookups clicked before and
\* while it runs
InitBatch ==
  /\ InitCommon
  /\ inv = 0 /\ faults = 0 /\ n429 = 0 /\ upstreams = {}
  /\ searchesLeft = MaxSearches - 1

NextBatch ==
  \/ BatchStart \/ BatchNext \/ BatchDelay
  \/ \E c \in CallIds : DashStart(c)
  \/ \E c \in AllCallIds : DashAnswer(c)
  \/ \E c \in AllCallIds : DashUpsert(c)

SpecBatch == InitBatch /\ [][NextBatch]_vars

\* the trigger invoked by any client, or by the dashboard's searchEmail; the
\* function keeps no state, so the two are explored one after the other
NextTrigger ==
  \/ searchesLeft = MaxSearches /\ NextSearch
  \/ sPc = "idle" /\ NextDash

SpecTrigger == InitDash /\ [][NextTrigger]_vars

\* the CSV writer on the companies of CsvCompanies
NextCsv == ExportCsvRow

SpecCsv == InitSearch /\ [][NextCsv]_vars

\* the date-of-birth formatters on the values of DobValues
NextDob == RenderDob

SpecDob == InitSearch /\ [][NextDob]_vars

\* ------------------------------------------------------------------ claims
Last(q) == q[Len(q)]
CeilDiv(a, b) == (a + b - 1) \div b

\* the page loop has just ended by a break
LoopEnded ==
  \/ version = "officers" /\ pc = "store"
  \/ version = "first" /\ pc = "jsonl"

NoThrottling == \A i \in 1..Len(requests) : requests[i].status = 200

\* C1 (as claimed, for an upstream with at least one company): when the
\* upstream reports T, serves 100-item pages until its T items are exhausted
\* and never errors, the run issues exactly ceil(T/100) company searches, at
\* start_index 0, 100, 200, ..., and has accumulated T companies when the
\* loop ends.
C1_Claim ==
  (LoopEnded /\ NoThrottling /\ upstream.total = upstream.items /\ upstream.total > 0) =>
     /\ Len(requests) = CeilDiv(upstream.total, PAGE_SIZE)
     /\ \A i \in 1..Len(requests) : requests[i].start_index = PAGE_SIZE * (i - 1)
     /\ SumLen(allCompanies) = upstream.total

\* the wait the 429 policy prescribes, in milliseconds
C2_ExpectedWaitMs(ra) ==
  IF ra = None THEN 60000 ELSE IF ra = "2" THEN 2000 ELSE 300000

\* a 429 answer is being handled, or was handled and the retry is not sent yet
C2_Retrying ==
  /\ pc \in {"handle", "loop"} /\ requests # <<>>
  /\ Last(requests).status = 429

C2_Progress(rs) == [i \in 1..Len(rs) |-> <<rs[i].total_companies, rs[i].pages_fetched>>]

\* C2: a company search answered 429 is followed by a search at the same
\* start_index, not sooner than Retry-After seconds later (60 when absent);
\* from the 429 to the retry start_index, pages_fetched, the accumulated list
\* and the progress columns of the run rows do not change; an offset that was
\* answered otherwise is never requested again.
C2_Retry429 ==
  /\ [](\A i \in 1..Len(requests) : \A j \in 1..Len(requests) :
          /\ (j = i + 1 /\ requests[i].status = 429) =>
               /\ requests[j].start_index = requests[i].start_index
               /\ requests[j].at - requests[i].at >= C2_ExpectedWaitMs(requests[i].retryAfter)
          /\ (i < j /\ requests[i].status # 429) =>
               requests[j].start_index # requests[i].start_index)
  /\ [][(C2_Retrying /\ pc' \in {"handle", "loop"}) =>
          /\ startIndex' = startIndex /\ pagesFetched' = pagesFetched
          /\ allCompanies' = allCompanies
          /\ C2_Progress(runs') = C2_Progress(runs)
          /\ (pc' = "handle" => Last(requests').start_index = Last(requests).start_index)]_vars

\* one 429 followed by a 200: exactly one retry, at the same offset
C2_Witness ==
  /\ Len(requests) = 2 /\ requests[1].status = 429 /\ requests[2].status = 200
  /\ requests[1].retryAfter = "2"
  /\ requests[2].start_index = requests[1].start_index
  /\ pc = "handle"

\* the invocation ended after a company search was answered by a non-2xx
\* status other than 429
C3_SearchFailed ==
  /\ pc = "done" /\ requests # <<>> /\ Last(requests).status \notin {200, 429}

\* C3 (as claimed): after such an answer no further request is sent and no
\* export is uploaded, the invocation answers success: false with the error, and
\* the run it created is failed, with completed_at and the captured message.
C3_Claim ==
  C3_SearchFailed =>
     /\ officerRequests = <<>>
     /\ \A f \in FileNames : storage[f].by # runId
     /\ result.sent /\ ~result.success /\ result.error = err
     /\ runs[runId].status = "failed"
     /\ runs[runId].completed_at # NULL
     /\ runs[runId].error_message = err

\* C4: a run row is running only without completed_at, has completed_at
\* exactly when it is completed or failed, and every write that changes its
\* status to completed or failed stamps completed_at in the same write.
C4_Completion ==
  /\ [](\A i \in 1..Len(runs) :
          /\ runs[i].status \in {"running", "completed", "failed"}
          /\ (runs[i].completed_at # NULL) <=> (runs[i].status \in {"completed", "failed"}))
  /\ [][\A i \in 1..Len(runs) :
          (runs'[i].status # runs[i].status /\ runs'[i].status \in {"completed", "failed"})
             => runs'[i].completed_at = now']_vars

\* a run that completed was later marked failed by another invocation
C4_Witness ==
  \E i \in 1..Len(runs) :
     /\ runs[i].status = "failed" /\ runs[i].jsonl_file_path # NoFile
     /\ runs[i].completed_at # NULL /\ i # runId

C5_InWindow == {i \in 1..Len(requests) : requests[i].at >= rateLimitState.windowStart}
C5_Waits(ls) == Cardinality({i \in 1..Len(ls) : ls[i].tag = "rate_limit_wait" /\ ls[i].level = "info"})

\* C5: at most RATE_LIMIT company searches fall into one window of the
\* limiter; with RATE_LIMIT requests counted in a running window the next
\* search is sent only after the rest of the window plus one second, the
\* limiter then starts a new window with that search as its first, and the
\* wait adds one info log entry.
C5_RateLimit ==
  /\ [](/\ rateLimitState.requestCount <= 600
        /\ Cardinality(C5_InWindow) <= 600
        /\ Cardinality(C5_InWindow) = rateLimitState.requestCount)
  /\ [][(pc = "loop" /\ pc' = "handle" /\ rateLimitState.requestCount >= 600
         /\ now - rateLimitState.windowStart < 300000) =>
          /\ Last(requests').at >= rateLimitState.windowStart + 300000 + 1000
          /\ rateLimitState'.windowStart = Last(requests').at
          /\ rateLimitState'.requestCount = 1
          /\ C5_Waits(logs') = C5_Waits(logs) + 1]_vars

\* the 601st search of a run was sent, after one rate-limit wait
C5_Witness ==
  /\ Len(requests) = 601 /\ C5_Waits(logs) = 1
  /\ requests[601].at - requests[600].at > 240000
  /\ rateLimitState.requestCount = 1

\* C6 (as claimed): success: true is answered only when the run row of the
\* returned runId is completed, with completed_at and with the returned
\* counters and file names.
C6_Claim ==
  (result.sent /\ result.success) =>
     /\ runs[result.runId].status = "completed"
     /\ runs[result.runId].completed_at # NULL
     /\ runs[result.runId].total_companies = result.totalCompanies
     /\ runs[result.runId].pages_fetched = result.pagesFetched
     /\ runs[result.runId].jsonl_file_path = result.jsonlFile
     /\ runs[result.runId].csv_file_path = result.csvFile

\* C7 (as claimed): when the upload of the JSONL or of the CSV artifact fails,
\* the run ends failed with an error message and the invocation answers
\* success: false.
C7_Claim ==
  (pc = "done" /\ err \in {"Failed to upload JSONL", "Failed to upload CSV"}) =>
     /\ result.sent /\ ~result.success
     /\ runs[runId].status = "failed"
     /\ runs[runId].error_message # NoMsg

C8_Failed == {i \in 1..Len(officerRequests) : officerRequests[i].status \notin {200, 429}}
C8_Company(id) == CHOOSE c \in {insertedCompanies[k] : k \in 1..Len(insertedCompanies)} : c.id = id
C8_ErrorLogs(num) ==
  Cardinality({i \in 1..Len(logs) : /\ logs[i].level = "error"
                                    /\ logs[i].tag = "officer_fetch_failed"
                                    /\ logs[i].run_id = runId /\ logs[i].who = num})

\* C8: when the officer fetch of a company fails other than by 429, one error
\* log entry is written for that company, no officer of it is stored, and once
\* the officer loop is over every company after it has been asked for.
C8_OfficerIsolation ==
  \A i \in C8_Failed :
     LET id == officerRequests[i].company IN
       /\ C8_ErrorLogs(C8_Company(id).company_number) = 1
       /\ \A k \in 1..Len(officers) : officers[k].company_id # id
       /\ (pc \in {"jsonl", "csv", "complete", "catch", "done"}) =>
            \A k \in 1..Len(insertedCompanies) :
               insertedCompanies[k].id > id =>
                 \E j \in 1..Len(officerRequests) :
                    j > i /\ officerRequests[j].company = insertedCompanies[k].id

\* a run completed although the officer fetch of its first company failed
C8_Witness ==
  /\ pc = "done" /\ result.success /\ runs[runId].status = "completed"
  /\ Len(insertedCompanies) = MAX_COMPANIES
  /\ 1 \in C8_Failed /\ Len(officerRequests) = MAX_COMPANIES

C9_HasEmail(o) ==
  /\ o.kind = "json" /\ Len(o.profiles) > 0
  /\ Len(o.profiles[1].emails \o o.profiles[1].professional_emails
         \o o.profiles[1].personal_emails) > 0

\* C9: with name, location and company_sic_code present, when Search A
\* returns a profile with an email, the request makes exactly one upstream
\* call, never Search B or C, and answers with the result of Search A.
C9_FirstTierWins ==
  (/\ sPc = "done" /\ sCalls # <<>>
   /\ sCalls[1].tier = "s1" /\ C9_HasEmail(sCalls[1].outcome)) =>
     /\ Len(sCalls) = 1
     /\ sRes.sent /\ sRes.found /\ sRes.status = 200
     /\ sRes.source = "RocketReach (Search 1: name + location + company_sic_code)"
     /\ sRes.emails # <<>> /\ sRes.email = <<sRes.emails[1]>>
     /\ sCalls[1].params = [geo |-> "London", sic |-> "62012"]

C9_Witness ==
  /\ sPc = "done" /\ Len(sCalls) = 1 /\ sCalls[1].tier = "s1"
  /\ sReq.detailed_location # None
  /\ sCalls[1].outcome.profiles = <<PWork>>
  /\ sRes.email = <<"work@y.com">>

C10_Outright == {"non2xx", "empty", "malformed"}

\* the tier that has to follow call i when call i gave no result
C10_NextTier(i) ==
  IF sCalls[i].tier = "s1" /\ sReq.detailed_location # None THEN "s2"
  ELSE IF sCalls[i].tier \in {"s1", "s2"} THEN "s3"
  ELSE "notfound"

\* C10: a tier whose call fails outright (non-2xx, empty body, invalid JSON)
\* counts as a tier without result: the request is not aborted, the next tier
\* whose inputs are present is tried next, and when the last tier failed that
\* way the request ends "not found" (status 200), never with the text of the
\* failure.
C10_FallThrough ==
  \A i \in 1..Len(sCalls) :
     sCalls[i].outcome.kind \in C10_Outright =>
       /\ i < Len(sCalls) => sCalls[i + 1].tier = C10_NextTier(i)
       /\ i = Len(sCalls) =>
            \/ sPc = C10_NextTier(i) /\ ~sRes.sent
            \/ /\ sPc = "done" /\ sCalls[i].tier = "s3"
               /\ sRes.sent /\ sRes.status = 200 /\ ~sRes.found
               /\ sRes.error = "No profiles found after all search attempts"

\* Search A and B failed outright and Search C still answered with a profile
C10_Witness ==
  /\ sPc = "done" /\ Len(sCalls) = 3
  /\ sCalls[1].outcome.kind = "non2xx" /\ sCalls[2].outcome.kind = "malformed"
  /\ sCalls[3].outcome.kind = "json"
  /\ sRes.found /\ sRes.source = "RocketReach (Search 3: name + location)"

\* the request got to the searches and no search returned a profile
C11_NoProfile ==
  /\ sPc = "done" /\ sCalls # <<>>
  /\ \A i \in 1..Len(sCalls) :
       ~(sCalls[i].outcome.kind = "json" /\ Len(sCalls[i].outcome.profiles) > 0)

\* C11: when no tier yields a profile the response body is exactly
\* {found: false, error: <non-empty text>}: no profile and no email, emails,
\* phones, linkedin or source field.
C11_NotFoundShape ==
  C11_NoProfile =>
     /\ sRes.sent /\ sRes.json /\ ~sRes.found
     /\ sRes.error \notin {None, ""}
     /\ ~sRes.profile
     /\ sRes.email = <<>> /\ sRes.emails = <<>> /\ sRes.phones = <<>>
     /\ sRes.linkedin = None /\ sRes.source = None

\* all three tiers ran and none returned a profile
C11_Witness ==
  /\ C11_NoProfile /\ Len(sCalls) = 3
  /\ sCalls[1].outcome.kind = "json" /\ sCalls[2].outcome.kind = "empty"
  /\ sRes.error = "No profiles found after all search attempts"

C12_IsPlaceholder(e) == e # <<>> /\ e[1] = "[Hidden - "

\* the first profile of an answer has no email in any list and a preview
C12_PreviewOnly(o) ==
  /\ o.kind = "json" /\ Len(o.profiles) > 0
  /\ o.profiles[1].emails = <<>> /\ o.profiles[1].professional_emails = <<>>
  /\ o.profiles[1].personal_emails = <<>> /\ Len(o.profiles[1].preview) > 0

\* C12: when the selected profile has no email in any list and a non-empty
\* redacted preview, the result has found = true, an email that begins with
\* the marker "[Hidden", no emails list and a non-empty error text; the stored
\* officer_contacts.email never holds the placeholder and the placeholder is
\* never rendered as a mailto link.
C12_Placeholder ==
  /\ \A c \in CallIds :
       (calls[c].pc = "upsert" /\ C12_PreviewOnly(calls[c].outcome)) =>
          /\ calls[c].data.found /\ C12_IsPlaceholder(calls[c].data.email)
          /\ calls[c].data.emails = <<>>
          /\ calls[c].data.error \notin {None, ""}
  /\ \A i \in 1..Len(contacts) : ~C12_IsPlaceholder(contacts[i].email)
  /\ \A k \in OfficerIds :
       emailSearchResults[k] # <<>> =>
          ~C12_IsPlaceholder(MailtoLinks(emailSearchResults[k][1]))

\* a preview-only result was stored and is shown: the row has no email, the
\* entry has the placeholder
C12_Witness ==
  \E k \in OfficerIds : \E i \in 1..Len(contacts) :
     /\ contacts[i].officer_id = k /\ contacts[i].found /\ contacts[i].email = <<>>
     /\ contacts[i].error_message = "Email/phone requires RocketReach credits to reveal"
     /\ emailSearchResults[k] # <<>>
     /\ C12_IsPlaceholder(emailSearchResults[k][1].email)
     /\ MailtoLinks(emailSearchResults[k][1]) = <<>>

\* the body of a finished invocation is JSON with a boolean found, and with
\* an error text when found is false
C13_JsonResult ==
  /\ sRes.sent /\ sRes.json /\ sRes.found \in BOOLEAN
  /\ ~sRes.found => sRes.error \notin {None, ""}

\* a searchEmail call that ends leaves its officer out of the in-flight set
\* and with a result entry, which says found: false after an error or exception
C13_CallerSettles ==
  \A c \in CallIds :
     (calls[c].pc # "idle" /\ calls'[c].pc = "idle") =>
        /\ calls[c].officer \notin searchingEmails'
        /\ emailSearchResults'[calls[c].officer] # <<>>
        /\ calls[c].pc = "invoke" =>
             /\ ~emailSearchResults'[calls[c].officer][1].found
             /\ emailSearchResults'[calls[c].officer][1].error \notin {None, ""}

\* C13 (as claimed): every invocation of the trigger ends with a JSON body
\* that has a boolean found, and an error text when found is false; every
\* searchEmail call ends with its officer out of the in-flight set and with a
\* result entry for that officer.
C13_Claim ==
  /\ [](sPc = "done" => C13_JsonResult)
  /\ [][C13_CallerSettles]_vars

\* C13 (amended): the same for every invocation other than a CORS preflight
\* (OPTIONS), which is answered with an empty body.
C13_NeverFatal ==
  /\ []((sPc = "done" /\ sReq.method # "OPTIONS") => C13_JsonResult)
  /\ [][C13_CallerSettles]_vars

\* a call that ended through the catch block after the function answered 400
\* (the officer's address gives an empty location)
C13_Witness ==
  /\ emailSearchResults[1] = <<CaughtResult("Edge Function returned a non-2xx status code")>>
  /\ 1 \notin searchingEmails /\ calls[1].pc = "idle" /\ searchesLeft = MaxSearches - 1
  /\ OfficerLocation(DashOfficer(1)) = ""

\* the contact columns the claim names (all but searched_at)
C14_Fields(row) ==
  [officer_id |-> row.officer_id, email |-> row.email, phone |-> row.phone,
   linkedin_url |-> row.linkedin_url, found |-> row.found,
   error_message |-> row.error_message, source |-> row.source,
   profile |-> row.profile]

C14_Stored(rows) == [i \in 1..Len(rows) |-> C14_Fields(rows[i])]

\* the row call c sends when it applies its upsert at time t
C14_RowOf(c, t) == ContactRow(calls[c].officer, ResultOf(calls[c].data), t)

\* C14: under every interleaving of contact searches there is at most one
\* officer_contacts row per officer, and once an upsert has taken effect,
\* applying the same upsert again leaves the stored contact fields as they
\* were after the first.
C14_UpsertSafe ==
  /\ [](\A i \in 1..Len(contacts) : \A j \in 1..Len(contacts) :
          contacts[i].officer_id = contacts[j].officer_id => i = j)
  /\ [][\A c \in CallIds :
          (/\ calls[c].pc = "upsert" /\ calls'[c].pc = "idle"
           /\ \E i \in 1..Len(contacts') :
                 C14_Fields(contacts'[i]) = C14_Fields(C14_RowOf(c, 0))) =>
             C14_Stored(Upsert(contacts', C14_RowOf(c, DashClock + 1)))
               = C14_Stored(contacts')]_vars

\* two searches for the same officer in flight together: the later one has
\* stored its row, the earlier one is about to store a different one
C14_Witness ==
  /\ calls[1].pc = "upsert" /\ calls[2].pc = "idle" /\ searchesLeft = 0
  /\ Len(contacts) = 1 /\ contacts[1].officer_id = calls[1].officer
  /\ contacts[1].found /\ contacts[1].email # <<>>
  /\ ~calls[1].data.found

\* a stored row says what a result says
C15_Reflects(row, r) ==
  /\ row.found = r.found /\ row.error_message = r.error
  /\ row.source = r.source /\ row.linkedin_url = r.linkedin

\* C15 (as claimed): every contact search that ends for an officer with a
\* stored officer_contacts row, whatever its outcome, replaces that row: after
\* the search the row reflects the result of that search, not an earlier one.
C15_Claim ==
  [][\A c \in CallIds :
       (/\ calls[c].pc # "idle" /\ calls'[c].pc = "idle"
        /\ \E i \in 1..Len(contacts) : contacts[i].officer_id = calls[c].officer) =>
          \E i \in 1..Len(contacts') :
             /\ contacts'[i].officer_id = calls[c].officer
             /\ C15_Reflects(contacts'[i], emailSearchResults'[calls[c].officer][1])]_vars

C16_Rows(id) == {i \in 1..Len(companies) : companies[i].run_id = id}
C16_Numbers(id) == {companies[i].company_number : i \in C16_Rows(id)}
C16_Stored(id) ==
  \E i \in 1..Len(logs) : logs[i].run_id = id /\ logs[i].tag = "stored_companies"

\* two invocations of the same handler for the same target date have both
\* completed, without an error logged, and the second has just ended
C16_TwoRuns ==
  /\ pc = "done" /\ Len(runs) = 2 /\ runId = 2
  /\ runs[1].target_date = runs[2].target_date
  /\ runs[1].status = "completed" /\ runs[2].status = "completed"
  /\ C16_Stored(1) = C16_Stored(2)
  /\ \A i \in 1..Len(logs) : logs[i].level # "error"

\* C16: two runs for the same date D, one after the other, leave two run
\* rows, twice the company rows of one run (each run's rows under its own
\* run_id, the same company numbers again), and one companies-D.jsonl and one
\* companies-D.csv object, holding what the second run uploaded.
C16_SameDateTwice ==
  C16_TwoRuns =>
     /\ Cardinality(C16_Rows(2)) = Cardinality(C16_Rows(1))
     /\ Len(companies) = 2 * Cardinality(C16_Rows(1))
     /\ C16_Numbers(2) = C16_Numbers(1)
     /\ \A k \in {"jsonl", "csv"} :
          /\ storage[<<k, runs[1].target_date>>].by = 2
          /\ storage[<<k, runs[1].target_date>>].items = limitedCompanies
     /\ runs[1].jsonl_file_path = runs[2].jsonl_file_path
     /\ runs[1].csv_file_path = runs[2].csv_file_path

\* both runs stored the companies of the date
C16_Witness ==
  /\ C16_TwoRuns /\ version = "officers"
  /\ Cardinality(C16_Rows(1)) = TwoTotal /\ Cardinality(C16_Rows(2)) = TwoTotal

C17_Header ==
  <<"company_number", "company_name", "company_status", "date_of_creation",
    "company_type", "address_line_1", "address_line_2", "locality",
    "postal_code", "country", "sic_codes">>

\* the value column i of a company has to re-parse to
C17_Value(company, i) ==
  IF C17_Header[i] = "sic_codes" THEN JoinWith(company.sic_codes, <<";", " ">>)
  ELSE company.cols[C17_Header[i]]

RECURSIVE C17_Scan(_, _, _, _, _)
\* an RFC-4180 reader of one record: mode is start (of a field), plain (in an
\* unquoted field), quoted (inside quotes) or closed (after the closing quote)
C17_Scan(line, i, mode, cur, fields) ==
  IF i > Len(line)
  THEN [ok |-> mode # "quoted", fields |-> Append(fields, cur)]
  ELSE LET ch == line[i] IN
    IF mode = "quoted"
    THEN IF ch # QUOTE THEN C17_Scan(line, i + 1, "quoted", Append(cur, ch), fields)
         ELSE IF i < Len(line) /\ line[i + 1] = QUOTE
         THEN C17_Scan(line, i + 2, "quoted", Append(cur, QUOTE), fields)
         ELSE C17_Scan(line, i + 1, "closed", cur, fields)
    ELSE IF ch = "," THEN C17_Scan(line, i + 1, "start", <<>>, Append(fields, cur))
    ELSE IF mode = "start" /\ ch = QUOTE THEN C17_Scan(line, i + 1, "quoted", <<>>, fields)
    ELSE IF mode = "closed" \/ ch = QUOTE THEN [ok |-> FALSE, fields |-> fields]
    ELSE C17_Scan(line, i + 1, "plain", Append(cur, ch), fields)

C17_Parse(line) == C17_Scan(line, 1, "start", <<>>, <<>>)

\* C17 (as claimed): the line written for a company is a well-formed
\* RFC-4180 record of exactly 11 fields, in the header's order, each equal to
\* the company's value (empty for an absent field, SIC codes joined with "; ").
C17_Claim ==
  csvLine # <<>> =>
     /\ C17_Parse(csvLine).ok
     /\ Len(C17_Parse(csvLine).fields) = 11
     /\ \A i \in 1..11 : C17_Parse(csvLine).fields[i] = C17_Value(csvCompany, i)

C18_Months ==
  <<"January", "February", "March", "April", "May", "June",
    "July", "August", "September", "October", "November", "December">>

\* the value has month 1..12 and a year
C18_Full(dob) == dob.present /\ dob.month \in 1..12 /\ dob.year # 0

\* the value is missing, or has a year and no month
C18_NoMonth(dob) == ~dob.present \/ (dob.month = 0 /\ dob.year # 0)

\* C18 (as claimed): every date-of-birth formatter renders month m and year y
\* as "<English month name> y", and a missing value, or a value that has a
\* year but no month, as "Not available".
C18_Claim ==
  dobOut # NoDobOut =>
     \A text \in {dobOut.page, dobOut.details} :
        /\ C18_Full(dobIn) =>
             text = C18_Months[dobIn.month] \o " " \o ToString(dobIn.year)
        /\ C18_NoMonth(dobIn) => text = "Not available"

\* the columns of a run row an invocation writes
C19_Written(run) ==
  <<run.status, run.completed_at, run.error_message, run.total_companies,
    run.pages_fetched>>

\* C19 (as claimed): no step of an invocation changes the status,
\* completed_at, error_message or progress counters of a run row other than
\* the row the invocation created itself (runId; none when it failed before
\* creating one).
C19_Claim ==
  [][\A i \in 1..Len(runs) :
       i # runId' => C19_Written(runs'[i]) = C19_Written(runs[i])]_vars

\* the registry requests of the run sent in the limiter's current window
C20_Searches == {i \in 1..Len(requests) : requests[i].at >= rateLimitState.windowStart}
C20_OfficerCalls ==
  {i \in 1..Len(officerRequests) : officerRequests[i].at >= rateLimitState.windowStart}

\* C20 (as claimed): every registry request of a run, company search or
\* officer request, is counted against the run's one budget of 600 per
\* window, and the requests of one window never exceed 600.
C20_Claim ==
  /\ Cardinality(C20_Searches) + Cardinality(C20_OfficerCalls)
       = rateLimitState.requestCount
  /\ Cardinality(C20_Searches) + Cardinality(C20_OfficerCalls) <= RATE_LIMIT

\* the page whose answer is awaited or handled is the first of the run
C21_FirstPage == pagesFetched = 0

\* C21 (as claimed): once every request is answered and the 429s have run
\* out, the company-search loop ends, by a break or by a fatal error, also
\* when the upstream reports no total or more than it serves; and a first page
\* with zero items is the run's last page request.
C21_Claim ==
  /\ (pc = "loop") ~> (pc \in {"store", "jsonl", "catch"})
  /\ [][(pc = "handle" /\ response.status = 200 /\ response.n = 0 /\ C21_FirstPage)
          => pc' # "loop"]_vars

\* the company searches before request i that were answered with a page
C22_PagesBefore(i) == Cardinality({j \in 1..(i - 1) : requests[j].status = 200})

\* C22 (as claimed): after every fetched page, until the next company search
\* is sent (or the loop has ended), the run row holds the number of pages
\* fetched so far and the number of items accumulated so far; and every
\* company search is sent with start_index = 100 * pages fetched so far.
C22_Claim ==
  /\ ((pc = "loop" \/ LoopEnded) /\ pagesFetched > 0) =>
        /\ runs[runId].pages_fetched = pagesFetched
        /\ runs[runId].total_companies = SumLen(allCompanies)
  /\ \A i \in 1..Len(requests) :
        requests[i].start_index = 100 * C22_PagesBefore(i)

C23_OfficersOf(id) == {k \in 1..Len(officers) : officers[k].company_id = id}
C23_Answered(id) ==
  {i \in 1..Len(officerRequests) :
     officerRequests[i].company = id /\ officerRequests[i].status # 429}

\* C23: an officer request for company c answered 429 is followed by a
\* request for c again, not sooner than Retry-After seconds later (60 when
\* absent); until c is answered otherwise the loop stays at c and no officer
\* of c is stored, and the officers of c are inserted at most once.
C23_OfficerRetry ==
  /\ \A i \in 1..Len(officerRequests) :
        officerRequests[i].status = 429 =>
          IF i < Len(officerRequests)
          THEN /\ officerRequests[i + 1].company = officerRequests[i].company
               /\ officerRequests[i + 1].at - officerRequests[i].at
                    >= C2_ExpectedWaitMs(officerRequests[i].retryAfter)
          ELSE /\ pc = "officers"
               /\ insertedCompanies[oi].id = officerRequests[i].company
               /\ now - officerRequests[i].at
                    >= C2_ExpectedWaitMs(officerRequests[i].retryAfter)
  /\ \A i \in 1..Len(insertedCompanies) :
        LET id == insertedCompanies[i].id IN
          /\ C23_Answered(id) = {} => C23_OfficersOf(id) = {}
          /\ Cardinality(C23_Answered(id)) <= 1
          /\ Cardinality(C23_OfficersOf(id))
               <= OfficerCount(insertedCompanies[i].company_number)

\* the second company was throttled once without Retry-After, asked again a
\* minute later, and its officer is stored once
C23_Witness ==
  /\ Len(officerRequests) = 3 /\ officerRequests[2].status = 429
  /\ officerRequests[2].retryAfter = None
  /\ officerRequests[3].status = 200
  /\ officerRequests[3].company = officerRequests[2].company
  /\ officerRequests[3].at = officerRequests[2].at + 60000
  /\ Cardinality(C23_OfficersOf(officerRequests[3].company)) = 1

C24_Tags == {"store_companies_failed", "officers_store_failed"}
C24_ErrorLogs(ls) ==
  {i \in 1..Len(ls) : ls[i].level = "error" /\ ls[i].tag \in C24_Tags}

\* this step is a bulk insert of companies that failed
C24_CompaniesFailed ==
  /\ pc = "store" /\ limitedCompanies' # <<>> /\ companies' = companies

\* this step is a bulk insert of the officers of a company that failed
C24_OfficersFailed ==
  /\ pc = "officers" /\ Len(officerRequests') = Len(officerRequests) + 1
  /\ Last(officerRequests').status = 200
  /\ OfficerCount(insertedCompanies[oi].company_number) > 0
  /\ officers' = officers

\* the invocation is over and nothing failed in it but bulk inserts
C24_OnlyInsertsFailed ==
  /\ pc = "done" /\ C24_ErrorLogs(logs) # {}
  /\ Cardinality(C24_ErrorLogs(logs)) = MaxFaults - faults

\* C24: a failed bulk insert of the run's companies, or of one company's
\* officers, appends an error log entry and does not fail the run: the
\* pipeline goes on without those rows, both artifacts are uploaded from the
\* in-memory company list, and the run ends completed.
C24_InsertNonFatal ==
  /\ [][(C24_CompaniesFailed \/ C24_OfficersFailed) =>
          /\ Cardinality(C24_ErrorLogs(logs')) = Cardinality(C24_ErrorLogs(logs)) + 1
          /\ Last(logs').level = "error" /\ Last(logs').run_id = runId
          /\ pc' \in {"officers", "jsonl"}
          /\ runs' = runs /\ err' = err /\ ~result'.sent]_vars
  /\ [](C24_OnlyInsertsFailed =>
          /\ result.sent /\ result.success
          /\ runs[runId].status = "completed"
          /\ \A k \in {"jsonl", "csv"} :
               /\ storage[<<k, dateToFetch>>].by = runId
               /\ storage[<<k, dateToFetch>>].items = limitedCompanies
          /\ SumLen(limitedCompanies) = Min(MAX_COMPANIES, SumLen(allCompanies)))

\* the companies could not be stored: no company row, no officer request,
\* the artifacts hold the five companies and the run is completed
C24_Witness ==
  /\ C24_OnlyInsertsFailed /\ companies = <<>> /\ officerRequests = <<>>
  /\ \E i \in C24_ErrorLogs(logs) : logs[i].tag = "store_companies_failed"
  /\ SumLen(storage[<<"csv", dateToFetch>>].items) = MAX_COMPANIES
  /\ runs[runId].status = "completed"

C25_Order == <<"s1", "s2", "s3">>
C25_Rank(t) == CHOOSE k \in 1..3 : C25_Order[k] = t

\* the inputs tier t needs besides the name
C25_InputsPresent(t) ==
  /\ sReq.name # None
  /\ t \in {"s1", "s3"} => sReq.location # None
  /\ t = "s1" => sReq.company_sic_code # None
  /\ t = "s2" => sReq.detailed_location # None

\* an answer with a profile that has an email, a phone or a linkedin url
C25_Usable(o) ==
  /\ o.kind = "json"
  /\ \E k \in 1..Len(o.profiles) :
        \/ o.profiles[k].emails \o o.profiles[k].professional_emails
             \o o.profiles[k].personal_emails # <<>>
        \/ o.profiles[k].phones # <<>>
        \/ o.profiles[k].linkedin_url # None

\* the tiers are called in the order A, B, C, each at most once, and each
\* with its inputs present
C25_InOrder ==
  /\ Len(sCalls) <= 3
  /\ \A i \in 1..Len(sCalls) :
        /\ sCalls[i].tier \in {"s1", "s2", "s3"}
        /\ C25_InputsPresent(sCalls[i].tier)
        /\ \A j \in 1..Len(sCalls) :
              i < j => C25_Rank(sCalls[i].tier) < C25_Rank(sCalls[j].tier)

\* C25 (as claimed): the tiers are tried in the order A, B, C, each at most
\* once and only with its inputs present, and tier B (C) is tried only if
\* tier A (B) ran and returned no usable profile.
C25_Claim ==
  /\ C25_InOrder
  /\ \A i \in 1..Len(sCalls) :
        C25_Rank(sCalls[i].tier) > 1 =>
          /\ i > 1
          /\ C25_Rank(sCalls[i - 1].tier) = C25_Rank(sCalls[i].tier) - 1
          /\ ~C25_Usable(sCalls[i - 1].outcome)

\* C25 (amended): the same order and inputs, and a tier is tried only if
\* every tier before it was either skipped for lack of its inputs or ran and
\* returned no usable profile.
C25_TierOrder ==
  /\ C25_InOrder
  /\ \A i \in 1..Len(sCalls) : \A k \in 1..3 :
        k < C25_Rank(sCalls[i].tier) =>
          \/ ~C25_InputsPresent(C25_Order[k])
          \/ \E j \in 1..(i - 1) :
                sCalls[j].tier = C25_Order[k] /\ ~C25_Usable(sCalls[j].outcome)

\* without a company_sic_code Search A is skipped: Search B is the first call
\* and Search C follows it
C25_Witness ==
  /\ sPc = "done" /\ sReq.company_sic_code = None
  /\ Len(sCalls) = 2 /\ sCalls[1].tier = "s2" /\ sCalls[2].tier = "s3"
  /\ sRes.found

\* an answer with a profile that has an email, a phone, a linkedin url or a
\* redacted preview of an email
C26_Surface(o) ==
  \/ C25_Usable(o)
  \/ o.kind = "json" /\ \E k \in 1..Len(o.profiles) : o.profiles[k].preview # <<>>

\* C26 (as claimed): a request ends found = true only on a tier that
\* returned a profile with a contact surface (an email, a phone or a
\* professional-network link; a redacted preview is let count as one); a tier
\* whose profiles carry none does not end the chain: the next tier is tried.
C26_Claim ==
  /\ (sPc = "done" /\ sRes.found) =>
        sCalls # <<>> /\ C26_Surface(Last(sCalls).outcome)
  /\ \A i \in 1..Len(sCalls) :
        (sCalls[i].outcome.kind = "json" /\ ~C26_Surface(sCalls[i].outcome)) =>
          IF i < Len(sCalls) THEN sCalls[i + 1].tier = C10_NextTier(i)
          ELSE \/ sPc = C10_NextTier(i) /\ ~sRes.sent
               \/ sPc = "done" /\ sCalls[i].tier = "s3" /\ ~sRes.found

C27_BatchCalls == {BatchCallId(k) : k \in OfficerIds}
C27_Looked == {batch.looked[n].officer : n \in 1..Len(batch.looked)}
C27_HasRow(k) == \E r \in 1..Len(contacts) : contacts[r].officer_id = k

\* the batch has one lookup in flight at most, and only while it awaits it;
\* consecutive lookups are a delay apart; no officer is looked up twice or
\* although it had a result when the batch started, and when the batch is
\* over every other officer was looked up
C27_Sequential ==
  /\ \A c \in C27_BatchCalls :
        calls[c].pc # "idle" =>
          batch.pc = "await" /\ c = BatchCallId(batch.i)
  /\ \A n \in 1..Len(batch.looked) : \A m \in 1..Len(batch.looked) :
        n < m => /\ batch.looked[n].officer # batch.looked[m].officer
                 /\ batch.looked[m].slept >= batch.looked[n].slept + 500
  /\ C27_Looked \cap batch.had = {}
  /\ batch.pc = "done" =>
        /\ C27_Looked = OfficerIds \ batch.had
        /\ \A k \in C27_Looked : emailSearchResults[k] # <<>>

\* when the batch has gone on to a later officer, the result of each earlier
\* lookup is stored in officer_contacts
C27_Persisted ==
  \A n \in 1..Len(batch.looked) :
     (n < Len(batch.looked) \/ batch.pc \in {"next", "done"}) =>
        C27_HasRow(batch.looked[n].officer)

\* C27 (as claimed): the lookups of one "find contact details for all" batch
\* are strictly sequential, the next one starting only after the previous one
\* has settled, its result has been persisted and the delay has passed; each
\* officer without a result at the start is looked up exactly once, officers
\* with a result are skipped, and the batch ends after the last officer.
C27_Claim == C27_Sequential /\ C27_Persisted

\* C28 (as claimed): no write to a run row lowers its pages_fetched or its
\* total_companies, the completion write included.
C28_Claim ==
  [][\A i \in 1..Len(runs) :
       /\ runs'[i].pages_fetched >= runs[i].pages_fetched
       /\ runs'[i].total_companies >= runs[i].total_companies]_vars

C29_Kinds == {"jsonl", "csv"}
C29_Path(run, kind) == IF kind = "jsonl" THEN run.jsonl_file_path ELSE run.csv_file_path
C29_Object(run, kind) == storage[<<kind, run.target_date>>]

\* the step that makes run i completed finds both artifacts uploaded by this
\* invocation, after its last registry request (page fetches and officer
\* enrichment), and writes the number of companies in them (at most the cap
\* in the handler that has one)
C29_AtCompletion ==
  \A i \in 1..Len(runs) :
     (runs[i].status # "completed" /\ runs'[i].status = "completed") =>
        /\ i = runId /\ pagesFetched >= 1
        /\ oi = 0 \/ oi > Len(insertedCompanies)
        /\ \A k \in C29_Kinds :
              /\ C29_Object(runs[i], k).by = i
              /\ C29_Object(runs[i], k).after = Len(requests) + Len(officerRequests)
              /\ SumLen(C29_Object(runs[i], k).items) = runs'[i].total_companies
        /\ version = "officers" => runs'[i].total_companies <= MAX_COMPANIES

\* C29 (as claimed): a completed run has its two paths set to the names of
\* its target date, and both objects are in storage, uploaded by that
\* invocation after its last page fetch and its officer enrichment, with
\* total_companies companies in each.
C29_Claim ==
  /\ [](\A i \in 1..Len(runs) :
          runs[i].status = "completed" =>
            \A k \in C29_Kinds :
               /\ C29_Path(runs[i], k) = <<k, runs[i].target_date>>
               /\ C29_Object(runs[i], k).by = i
               /\ SumLen(C29_Object(runs[i], k).items) = runs[i].total_companies)
  /\ [][C29_AtCompletion]_vars

\* C29 (amended): the same, but the objects now in storage are the ones that
\* invocation uploaded or the ones a later invocation for the same date put
\* in their place; total_companies is the number of companies in the
\* artifacts the run itself uploaded.
C29_Artifacts ==
  /\ [](\A i \in 1..Len(runs) :
          runs[i].status = "completed" =>
            \A k \in C29_Kinds :
               /\ C29_Path(runs[i], k) = <<k, runs[i].target_date>>
               /\ C29_Object(runs[i], k).by >= i
               /\ C29_Object(runs[i], k).by # i =>
                    runs[C29_Object(runs[i], k).by].target_date = runs[i].target_date
               /\ C29_Object(runs[i], k).by = i =>
                    SumLen(C29_Object(runs[i], k).items) = runs[i].total_companies)
  /\ [][C29_AtCompletion]_vars

\* two completed runs for one date: the artifacts of the first were replaced
\* by those of the second
C29_Witness ==
  /\ pc = "done" /\ Len(runs) = 2 /\ runId = 2
  /\ runs[1].status = "completed" /\ runs[2].status = "completed"
  /\ runs[1].target_date = runs[2].target_date
  /\ \A k \in C29_Kinds : C29_Object(runs[1], k).by = 2

\* the status the handler owes a request it rejects before any search (0: the
\* request is not rejected by the four checks)
C30_Rejection(req) ==
  IF req.method # "POST" THEN 405
  ELSE IF req.name = None THEN 400
  ELSE IF ~req.apiKey THEN 500
  ELSE IF req.location = None THEN 400
  ELSE 0

\* the request fails one of the four checks (a POST whose body cannot be
\* read never gets to the checks of its fields)
C30_Checked(req) ==
  /\ C30_Rejection(req) # 0
  /\ req.method = "POST" => req.bodyOk

\* the answer to a rejected request: found = false, an error text, the status
\* of the failed check, and no search made
C30_Rejected(req) ==
  /\ sCalls = <<>>
  /\ sRes.sent /\ sRes.json /\ ~sRes.found /\ sRes.error \notin {None, ""}
  /\ sRes.status = C30_Rejection(req)

\* no search is made for a request that fails one of the checks
C30_NoSearch == sCalls # <<>> => (sReq.bodyOk /\ C30_Rejection(sReq) = 0)

\* a searchEmail call gets to its upsert only with a 200 answer of the
\* searches; a call that ends before leaves officer_contacts as it is, and no
\* row is ever stored for an officer whose location is empty
C30_CallerStoresNothing ==
  /\ [](\A c \in AllCallIds :
          calls[c].pc = "upsert" =>
            /\ calls[c].data.status = 200
            /\ OfficerLocation(DashOfficer(calls[c].officer)) # ""
            /\ \/ calls[c].data.found
               \/ calls[c].data.error = "No profiles found after all search attempts")
  /\ [](\A r \in 1..Len(contacts) :
          OfficerLocation(DashOfficer(contacts[r].officer_id)) # "")
  /\ [][\A c \in AllCallIds :
          (calls[c].pc = "invoke" /\ calls'[c].pc = "idle") => contacts' = contacts]_vars

\* C30 (as claimed): no people search is made unless the method is POST and
\* name, API key and location are there; each rejected request is answered
\* found = false with an error text and status 405, 400, 500, 400, whatever
\* detailed_location and company_sic_code are; the caller stores no
\* officer_contacts row for it.
C30_Claim ==
  /\ [](C30_NoSearch)
  /\ []((sPc = "done" /\ C30_Checked(sReq)) => C30_Rejected(sReq))
  /\ C30_CallerStoresNothing

\* C30 (amended): the same for every rejected request but the CORS preflight
\* (OPTIONS), which is answered 200 with an empty body.
C30_Guarded ==
  /\ [](C30_NoSearch)
  /\ []((sPc = "done" /\ C30_Checked(sReq) /\ sReq.method # "OPTIONS")
          => C30_Rejected(sReq))
  /\ [](sPc = "done" /\ sReq.method = "OPTIONS" => sCalls = <<>> /\ sRes.status = 200)
  /\ C30_CallerStoresNothing

\* a POST with name, key, company_sic_code and detailed_location but without
\* location was answered 400 without a search
C30_Witness ==
  /\ sPc = "done" /\ sReq.method = "POST" /\ sReq.bodyOk /\ sReq.apiKey
  /\ sReq.name # None /\ sReq.location = None
  /\ sReq.detailed_location # None /\ sReq.company_sic_code # None
  /\ sCalls = <<>> /\ sRes.status = 400 /\ ~sRes.found
  /\ sRes.error = "Location is required for search"

====
